---- MODULE Spec2Model ----
(***************************************************************************)
(* A model of job_pool.JobPool (src/job_pool/job_pool.py): one controller  *)
(* that submits jobs with applyAsync and collects them with checkPool, the *)
(* worker processes of its NestablePool, and a clock.                      *)
(*                                                                         *)
(* Time is counted in whole seconds.  The only statement of the controller *)
(* that takes time is res.wait(timeout=1) (line 176): it returns at once   *)
(* when the handle is ready and after exactly one second otherwise.  Every *)
(* other statement is taken to run in negligible time, so the clock        *)
(* advances only while the controller is blocked in that wait.             *)
(*                                                                         *)
(* Workers run asynchronously: a job may return, raise an ordinary error,  *)
(* or end its worker (sys.exit, a crash); a worker may also be killed from *)
(* outside, busy or idle.  A job whose worker ended never resolves.  The   *)
(* pool replaces workers that ended.  An interrupt may be delivered to the *)
(* controller anywhere in checkPool.                                       *)
(***************************************************************************)
EXTENDS Integers, Sequences, FiniteSets, TLC

\* ------------------------------------------------------------- bounds
\* At most MaxJobs calls of applyAsync before checkPool.
MaxJobs == 2
\* At most MaxRespawns replacement workers are created by the pool.
MaxRespawns == 1
\* The clock stops at MaxTime.
MaxTime == 4
\* max_jobs_queued is drawn from 0..MaxQueueBound.
MaxQueueBound == 1
\* maxtasksperchild is drawn from 1..MaxTasksPerChild.
MaxTasksPerChild == 1
\* Jobs construct pools whose jobs construct pools, MaxDepth levels deep.
MaxDepth == 2

\* ------------------------------------------------ configuration values
\* JobPool(processes=2), as in tests/integration_tests/test_memory_usage.py:42.
NumProcesses == 2
\* JobPool(..., timeout=2), as in test_timeout and test_no_timeout.
timeout == 2
\* res.wait(timeout=1): the poll interval of checkForTerminatedProcess.
PollInterval == 1
\* The exit status of a worker whose job called sys.exit(123) (exit_if_one);
\* it stands for every nonzero exit status.
ExitFailure == 123
\* The exit status of a worker killed by pool.terminate() (SIGTERM).
ExitSigterm == -15

\* Process.exitcode: <<>> is None (still alive), <<c>> is the exit status c.
\* maxtasksperchild: <<>> is None (unlimited), <<k>> is the limit k.
None == <<>>

VARIABLES
    max_jobs_queued,  \* the constructor's max_jobs_queued (0 = unbounded)
    maxtasksperchild, \* the constructor's maxtasksperchild (None = unlimited)
    f,                \* the job function the caller submits
    job_queue,        \* number of "dummy" items in self.job_queue
    progress,         \* self.progress_bar.n
    results,          \* self.results: the handles, in submission order
    proc,             \* every worker process the pool created, by pid
    processes,        \* NestablePool.processes: the tracked pids
    poolState,        \* "RUN" | "TERMINATE" (Pool._state)
    pc,               \* the controller's position
    block,            \* "try" | "except_interrupt" | "except_exception"
    fargs,            \* the argument of the applyAsync call in progress
    kwargs,           \* the keyword arguments of the applyAsync call in progress
    i,                \* index into self.results of checkPool's for loop
    outputs,          \* checkPool's local list
    start_time,       \* checkForTerminatedProcess's local start_time
    waited,           \* seconds spent in the current res.wait
    cause,            \* the exception the except clause caught
    outcome,          \* how checkPool ended
    returned,         \* the list checkPool returned
    error,            \* the exception object checkPool raised
    kept,             \* check_for_terminated_processes: the list built at line 48
    now,              \* the clock
    nTerminate,       \* history: calls of pool.terminate()
    nJoin,            \* history: calls of pool.join()
    diedPending,      \* history: a worker exited nonzero while a job was pending
    diedReplacement,  \* history: ... and that worker was a replacement worker
    died,             \* history: a worker exited other than by pool.terminate()
    overran,          \* history: some job ran for longer than timeout
    segOver,          \* history: some wait segment lasted longer than timeout
    segStart,         \* history: when checkPool began waiting on handle i
    abortedAt,        \* history: the clock when TimeoutError was raised
    outOfOrder,       \* history: a job resolved before an earlier submitted one
    interruptedAt,    \* history: "loop" | "teardown", where the try block was interrupted
    start_method,     \* how multiprocessing starts a process: "fork" | "spawn"
    handlers,         \* handlers[d + 1]: the root logger's handlers in the process at depth d
    listener,         \* listener[q]: the depth of the process that runs queue q's listener
    queues,           \* queues[q]: the copies of the log record waiting in queue q
    given,            \* given[d + 1]: the queue argument of the JobPool constructed at depth d
    passed,           \* passed[d + 1]: the queue that pool handed to worker_init
    relays,           \* relays[d + 1]: the listeners JobPool.__init__ started at depth d
    logged,           \* a worker has emitted the log record
    written,          \* history: how often the log sink wrote the record
    forwarded         \* history: forwarded[d + 1]: how often a relay at depth d forwarded it

vars == <<max_jobs_queued, maxtasksperchild, f, job_queue, progress, results,
          proc, processes, poolState, pc, block, fargs, kwargs, i, outputs,
          start_time, waited, cause, outcome, returned, error, kept, now,
          nTerminate, nJoin, diedPending, diedReplacement, died, overran, segOver, segStart,
          abortedAt, outOfOrder, interruptedAt, start_method, handlers,
          listener, queues, given, passed, relays, logged, written, forwarded>>

\* The constructor's arguments, which nothing changes afterwards.
cfg == <<max_jobs_queued, maxtasksperchild, f>>

\* The log channels and their relays.
logs == <<start_method, handlers, listener, queues, given, passed, relays,
          logged, written, forwarded>>

\* ------------------------------------------------------------ helpers
\* add_one of the unit tests: the job body.
add_one(x) == x + 1

\* sum(results)
RECURSIVE sum(_)
sum(seq) == IF seq = <<>> THEN 0 ELSE Head(seq) + sum(Tail(seq))

\* add_one_with_pool of the unit tests submits one job per value of its list,
\* each value being 1.
NestedValues == [k \in 1..8 |-> 1]

\* The job function f nested d levels deep, applied to x: add_one for d = 0;
\* for d > 0 add_one_with_pool, which constructs a JobPool, submits a job of
\* depth d - 1 with argument x + value for every value, calls checkPool and
\* returns the sum of the ordered results.
RECURSIVE add_one_with_pool(_, _)
add_one_with_pool(d, x) ==
    IF d = 0
    THEN add_one(x)
    ELSE sum([k \in 1..Len(NestedValues) |->
                 add_one_with_pool(d - 1, x + NestedValues[k])])

\* AsyncResult.ready()
ready(res) == res.st \in {"ok", "err"}

\* A job that was submitted and has not resolved.
Pending(res) == ~ready(res)

\* A test `if proc.exitcode is not None:`, which exit status 0 passes.
IsNotNone(e) == e # None

\* Python truthiness of Process.exitcode in `if proc.exitcode:`.
Truthy(e) == e # None /\ e[1] # 0

Alive(p) == proc[p].exitcode = None

Pids == 1..Len(proc)

Min(S) == CHOOSE x \in S : \A y \in S : x <= y

Handles == 1..Len(results)

\* The handle apply_async returns for a job submitted with argument a.
Handle(a) == [fargs |-> a, st |-> "queued", value |-> 0, cb |-> "none", t0 |-> 0]

\* multiprocessing.Process's own daemon setter, which stores the value.
BaseProcess_set_daemon(flag, value) == value

\* NoDaemonProcess._set_daemon(self, value): pass.  The flag a process holds
\* (its _config, inherited from the creating process, where it is unset)
\* keeps the value it had.
_set_daemon(flag, value) == flag

\* NoDaemonProcess._get_daemon(self): return False
_get_daemon(flag) == FALSE

\* NestablePool.Process as multiprocessing.pool.Pool uses it for every worker,
\* initial or replacement: the process is created, made a NoDaemonProcess, and
\* the pool then assigns `w.daemon = True` before starting it.
NewProcess ==
    [exitcode |-> None, task |-> 0, completed |-> 0,
     daemon |-> _set_daemon(FALSE, TRUE)]

\* A process whose daemon flag is flag can run a job nested d levels deep:
\* a daemonic process is not allowed to have children, so the pool the job
\* constructs can only start its workers from a non-daemonic process, and
\* those workers, made by NestablePool.Process too, must in turn be able to
\* run the jobs of depth d - 1.
RECURSIVE CanNest(_, _)
CanNest(flag, d) ==
    IF d = 0 THEN TRUE ELSE ~flag /\ CanNest(NewProcess.daemon, d - 1)

\* `raise AbnormalPoolTerminationError from None` while exception handled
\* is being handled: no arguments, __cause__ None, __suppress_context__ True;
\* Python itself records the handled exception as __context__.
AbnormalPoolTerminationError_from_None(handled) ==
    [type |-> "AbnormalPoolTerminationError", args |-> <<>>, cause |-> None,
     suppress_context |-> TRUE, context |-> <<handled>>]

\* The exceptions of `except (KeyboardInterrupt, SystemExit)`.  The clause treats
\* both alike (only the logged class name differs), so one stands for both.
Interrupts == {"KeyboardInterrupt"}

\* The positions of checkPool at which it is waiting for or collecting a
\* handle (lines 148-149 and 169-179).
WaitLoop == {"while", "store", "wait", "get"}

\* The positions of the controller inside checkPool.
InCheckPool ==
    {"for", "while", "store", "wait", "get", "terminate", "join", "close", "raise"}

\* ---------------------------------------------------------------- Init
\* The state after the constructor, apart from max_jobs_queued:
\* NestablePool.__init__ has created its workers through
\* NestablePool.Process, which tracked each of them.
Constructed ==
    /\ job_queue = 0
    /\ progress = 0
    /\ results = <<>>
    /\ proc = [p \in 1..NumProcesses |-> NewProcess]
    /\ processes = [p \in 1..NumProcesses |-> p]
    /\ poolState = "RUN"
    /\ pc = "main"
    /\ block = "try"
    /\ fargs = 0
    /\ kwargs = {}
    /\ error = None
    /\ kept = <<>>
    /\ i = 0
    /\ outputs = <<>>
    /\ start_time = 0
    /\ waited = 0
    /\ cause = "none"
    /\ outcome = "none"
    /\ returned = <<>>
    /\ now = 0
    /\ nTerminate = 0
    /\ nJoin = 0
    /\ diedPending = FALSE
    /\ diedReplacement = FALSE
    /\ died = FALSE
    /\ overran = FALSE
    /\ segOver = FALSE
    /\ segStart = 0
    /\ abortedAt = 0
    /\ outOfOrder = FALSE
    /\ interruptedAt = "none"

\* The handler an application configures on its root logger: the log sink.
Sink == [kind |-> "stream", queue |-> 0]

\* logging.handlers.QueueHandler(queue), for queue number q >= 1.
QueueHandler(q) == [kind |-> "queue", queue |-> q]

\* A pool constructed in the top-level process without a queue: queue stays
\* None (line 116), worker_init installs no handler, nothing is relayed.
TopLevelPool ==
    /\ start_method = "fork"
    /\ handlers = << <<>>, <<>> >>
    /\ listener = <<>>
    /\ queues = <<>>
    /\ given = <<None>>
    /\ passed = <<None>>
    /\ relays = <<0, 0>>
    /\ logged = FALSE
    /\ written = 0
    /\ forwarded = <<0, 0>>

\* JobPool(NumProcesses, timeout=timeout): max_jobs_queued defaults to 0
\* and maxtasksperchild to None; the jobs are add_one.
Init ==
    /\ max_jobs_queued = 0
    /\ maxtasksperchild = None
    /\ f = 0
    /\ Constructed
    /\ TopLevelPool

\* JobPool(NumProcesses, timeout=timeout, max_jobs_queued=b)
InitBounded ==
    /\ max_jobs_queued \in 0..MaxQueueBound
    /\ maxtasksperchild = None
    /\ f = 0
    /\ Constructed
    /\ TopLevelPool

\* JobPool(NumProcesses, timeout=timeout, maxtasksperchild=k)
InitTasks ==
    /\ max_jobs_queued = 0
    /\ maxtasksperchild \in {<<k>> : k \in 1..MaxTasksPerChild}
    /\ f = 0
    /\ Constructed
    /\ TopLevelPool

\* JobPool(NumProcesses, timeout=timeout, maxtasksperchild=k) whose jobs are
\* add_one_with_pool, nested MaxDepth levels deep (test_pool_is_nestable).
InitNested ==
    /\ max_jobs_queued = 0
    /\ maxtasksperchild \in {<<k>> : k \in 1..MaxTasksPerChild}
    /\ f = MaxDepth
    /\ Constructed
    /\ TopLevelPool

ctl == <<pc, block, fargs, kwargs, i, outputs, start_time, waited, cause,
         outcome, returned, error, kept, segStart, abortedAt>>
hist == <<nTerminate, nJoin, diedPending, diedReplacement, died, overran, segOver, outOfOrder,
          interruptedAt>>

\* ------------------------------------------------------- the controller
\* A put that lets one item too many in.
QueueHasRoomOffByOne == max_jobs_queued = 0 \/ job_queue <= max_jobs_queued

\* multiprocessing.Queue(maxsize=max_jobs_queued).put does not block:
\* maxsize 0 is unbounded, otherwise there must be a free slot.
QueueHasRoom == max_jobs_queued = 0 \/ job_queue < max_jobs_queued

\* The caller calls applyAsync(add_one, [k]) for k = 0, 1, ... as test_add_one
\* does: the k-th job (from 0) gets argument k, so results tell jobs apart.
CallApplyAsync ==
    /\ pc = "main"
    /\ Len(results) < MaxJobs
    /\ pc' = "put"
    /\ fargs' = Len(results)
    /\ kwargs' = {}
    /\ UNCHANGED <<cfg, logs, error, kept, job_queue, progress, results, proc,
                   processes, poolState, block, i, outputs, start_time, waited,
                   cause, outcome, returned, segStart, abortedAt, now, hist>>

\* The caller calls applyAsync(add_one, [k], callback=my_callback), as
\* test_add_one_with_callback does.
CallApplyAsyncCallback ==
    /\ pc = "main"
    /\ Len(results) < MaxJobs
    /\ pc' = "put"
    /\ fargs' = Len(results)
    /\ kwargs' = {"callback"}
    /\ UNCHANGED <<cfg, logs, error, kept, job_queue, progress, results, proc,
                   processes, poolState, block, i, outputs, start_time, waited,
                   cause, outcome, returned, segStart, abortedAt, now, hist>>

\* self.pool.apply_async(f, fargs, *args, **kwargs, callback=self.markJobDone):
\* a call that is given the keyword callback twice raises TypeError.
apply_async_raises(kw) == "callback" \in kw

\* applyAsync: job_queue.put("dummy") (blocks while the queue is full), then
\* pool.apply_async(..., callback=self.markJobDone) and results.append(r);
\* a TypeError of the call leaves applyAsync, the item staying in the queue.
applyAsync ==
    /\ pc = "put"
    /\ QueueHasRoom
    /\ job_queue' = job_queue + 1
    /\ IF apply_async_raises(kwargs)
       THEN /\ pc' = "raised"
            /\ outcome' = "TypeError"
            /\ UNCHANGED results
       ELSE /\ results' = Append(results, Handle(fargs))
            /\ pc' = "main"
            /\ UNCHANGED outcome
    /\ fargs' = 0
    /\ kwargs' = {}
    /\ UNCHANGED <<cfg, logs, error, kept, progress, proc, processes, poolState,
                   block, i, outputs, start_time, waited, cause,
                   returned, segStart, abortedAt, now, hist>>

\* The except clause that catches exception exc raised inside the try block.
Handler(exc) == IF exc \in Interrupts THEN "except_interrupt" ELSE "except_exception"

\* A try block whose except clauses catch Exception only.
RaiseInterruptUncaught(exc) ==
    IF block = "try" /\ exc \notin Interrupts
    THEN /\ pc' = "terminate"
         /\ block' = "except_exception"
         /\ cause' = exc
         /\ UNCHANGED <<outcome, returned>>
    ELSE /\ pc' = "done"
         /\ outcome' = exc
         /\ UNCHANGED <<block, cause, returned>>

\* Exception exc is raised at the controller's position.  Inside the try
\* block one of the two except clauses of checkPool catches it and goes on
\* to log and call stopPool; inside an except clause nothing catches it and
\* it leaves checkPool.
Raise(exc) ==
    IF block = "try"
    THEN /\ pc' = "terminate"
         /\ block' = Handler(exc)
         /\ cause' = exc
         /\ UNCHANGED <<outcome, returned>>
    ELSE /\ pc' = "done"
         /\ outcome' = exc
         /\ UNCHANGED <<block, cause, returned>>

\* The caller calls checkPool: outputs = list().
CallCheckPool ==
    /\ pc = "main"
    /\ pc' = "for"
    /\ i' = 1
    /\ outputs' = <<>>
    /\ UNCHANGED <<cfg, logs, kwargs, error, kept, job_queue, progress, results, proc,
                   processes, poolState, block, fargs, start_time, waited,
                   cause, outcome, returned, segStart, abortedAt, now, hist>>

\* A clock started once for the whole batch.
StartTimeOfBatch == IF i = 1 THEN now ELSE start_time

\* start_time = time.time() at the top of checkForTerminatedProcess.
StartTime == now

\* `for res in self.results:` and the entry of checkForTerminatedProcess(res);
\* after the last handle, the stopPool() of line 150.
ForNext ==
    /\ pc = "for"
    /\ IF i > Len(results)
       THEN /\ pc' = "terminate"
            /\ UNCHANGED <<start_time, segStart>>
       ELSE /\ pc' = "while"
            /\ start_time' = StartTime
            /\ segStart' = now
    /\ UNCHANGED <<cfg, logs, kwargs, error, kept, job_queue, progress, results, proc,
                   processes, poolState, block, fargs, i, outputs, waited,
                   cause, outcome, returned, abortedAt, now, hist>>

\* NestablePool.check_for_terminated_processes: the first tracked process
\* whose exitcode is truthy (0 when there is none: the method returns None).
TerminatedProcess ==
    IF \E k \in 1..Len(processes) : Truthy(proc[processes[k]].exitcode)
    THEN processes[Min({k \in 1..Len(processes) : Truthy(proc[processes[k]].exitcode)})]
    ELSE 0

\* ... and otherwise the tracked list without the processes that exited 0.
KeepProcess(p) == proc[p].exitcode # <<0>>

\* `while not res.ready():` and the poll of lines 170-173:
\* check_for_terminated_processes returns a process that exited nonzero, or
\* builds the list of the tracked processes that did not exit 0.
WhileNotReady ==
    /\ pc = "while"
    /\ IF ready(results[i])
       THEN /\ pc' = "get"
            /\ UNCHANGED <<block, cause, outcome, returned, kept>>
       ELSE IF TerminatedProcess # 0
       THEN /\ Raise("AbnormalWorkerTerminationError")
            /\ UNCHANGED kept
       ELSE /\ kept' = SelectSeq(processes, KeepProcess)
            /\ pc' = "store"
            /\ UNCHANGED <<block, cause, outcome, returned>>
    /\ UNCHANGED <<cfg, logs, kwargs, error, job_queue, progress, results, proc,
                   processes, poolState, fargs, i, outputs, start_time, waited,
                   segStart, abortedAt, now, hist>>

\* `self.processes = ...` of line 48: the list built from the tracked list as
\* it was is stored, replacing the tracked list as it is now; the controller
\* then enters res.wait(timeout=1).
StoreProcesses ==
    /\ pc = "store"
    /\ processes' = kept
    /\ kept' = <<>>
    /\ pc' = "wait"
    /\ waited' = 0
    /\ UNCHANGED <<cfg, logs, kwargs, error, job_queue, progress, results, proc,
                   poolState, block, fargs, i, outputs, start_time, cause,
                   outcome, returned, segStart, abortedAt, now, hist>>

\* A timeout that never expires.
TimedOutNever == FALSE

\* A check that lets one more second pass.
TimedOutLate == now - start_time > timeout + 1

\* `if time.time() - start_time > self.timeout:`
TimedOut == now - start_time > timeout

\* res.wait(timeout=1) returns, because the handle is ready or the poll
\* interval is over, and the elapsed time is compared with the timeout.
WaitReturn ==
    /\ pc = "wait"
    /\ ready(results[i]) \/ waited = PollInterval
    /\ IF TimedOut
       THEN /\ Raise("TimeoutError")
            /\ abortedAt' = now
       ELSE /\ pc' = "while"
            /\ UNCHANGED <<block, cause, outcome, returned, abortedAt>>
    /\ waited' = 0
    /\ UNCHANGED <<cfg, logs, kwargs, error, kept, job_queue, progress, results, proc,
                   processes, poolState, fargs, i, outputs, start_time,
                   segStart, now, hist>>

\* A get that hands back the error of a failed job as a value.
get_never_raises(res) == FALSE

\* AsyncResult.get() on a ready handle re-raises the error of a job that failed.
get_raises(res) == res.st = "err"

\* A list built in the reverse order.
outputs_prepend(out, v) == <<v>> \o out

\* outputs.append(v)
outputs_append(out, v) == Append(out, v)

\* outputs.append(res.get()): get returns the value, or raises the job's error.
Get ==
    /\ pc = "get"
    /\ IF ~get_raises(results[i])
       THEN /\ outputs' = outputs_append(outputs, results[i].value)
            /\ i' = i + 1
            /\ pc' = "for"
            /\ UNCHANGED <<block, cause, outcome, returned>>
       ELSE /\ Raise("Exception")
            /\ UNCHANGED <<outputs, i>>
    /\ UNCHANGED <<cfg, logs, kwargs, error, kept, job_queue, progress, results, proc,
                   processes, poolState, fargs, start_time, waited, segStart,
                   abortedAt, now, hist>>

\* Pool.terminate() kills a worker that is still alive.
Killed(w) ==
    IF w.exitcode = None THEN [w EXCEPT !.exitcode = <<ExitSigterm>>, !.task = 0] ELSE w

\* A handle whose job was running on a killed worker never resolves.
Abandon(res) == IF res.st = "running" THEN [res EXCEPT !.st = "lost", !.t0 = 0] ELSE res

\* stopPool, first statement: self.pool.terminate().
StopPoolTerminate ==
    /\ pc = "terminate"
    /\ proc' = [p \in Pids |-> Killed(proc[p])]
    /\ results' = [j \in Handles |-> Abandon(results[j])]
    /\ poolState' = "TERMINATE"
    /\ nTerminate' = nTerminate + 1
    /\ pc' = "join"
    /\ UNCHANGED <<cfg, logs, kwargs, error, kept, job_queue, progress, processes, block,
                   fargs, i, outputs, start_time, waited, cause, outcome,
                   returned, segStart, abortedAt, now, nJoin, diedPending, diedReplacement,
                   died, overran, segOver, outOfOrder, interruptedAt>>

\* stopPool, second statement: self.pool.join(); then back in checkPool, at
\* progress_bar.close() (line 151) or at the raise of the except clause.
StopPoolJoin ==
    /\ pc = "join"
    /\ nJoin' = nJoin + 1
    /\ pc' = IF block = "try" THEN "close" ELSE "raise"
    /\ UNCHANGED <<cfg, logs, kwargs, error, kept, job_queue, progress, results, proc,
                   processes, poolState, block, fargs, i, outputs, start_time,
                   waited, cause, outcome, returned, segStart, abortedAt, now,
                   nTerminate, diedPending, diedReplacement, died, overran, segOver, outOfOrder,
                   interruptedAt>>

\* self.progress_bar.close(); return outputs
ReturnOutputs ==
    /\ pc = "close"
    /\ pc' = "done"
    /\ outcome' = "returned"
    /\ returned' = outputs
    /\ UNCHANGED <<cfg, logs, kwargs, error, kept, job_queue, progress, results, proc,
                   processes, poolState, block, fargs, i, outputs, start_time,
                   waited, cause, segStart, abortedAt, now, hist>>

\* raise AbnormalPoolTerminationError from None (lines 156 and 161)
RaiseAbnormal ==
    /\ pc = "raise"
    /\ pc' = "done"
    /\ outcome' = "AbnormalPoolTerminationError"
    /\ error' = AbnormalPoolTerminationError_from_None(cause)
    /\ UNCHANGED <<cfg, logs, kwargs, kept, job_queue, progress, results, proc,
                   processes, poolState, block, fargs, i, outputs, start_time,
                   waited, cause, returned, segStart, abortedAt, now, hist>>

\* KeyboardInterrupt or SystemExit is delivered to the controller while it
\* is in checkPool (the workers ignore SIGINT: worker_init).
Interrupt(exc) ==
    /\ pc \in InCheckPool
    /\ Raise(exc)
    /\ waited' = 0
    /\ kept' = <<>>
    /\ interruptedAt' = IF block # "try" THEN interruptedAt
                        ELSE IF pc \in WaitLoop \/ (pc = "for" /\ i <= Len(results))
                        THEN "loop" ELSE "teardown"
    /\ UNCHANGED <<cfg, logs, kwargs, error, job_queue, progress, results, proc,
                   processes, poolState, fargs, i, outputs, start_time,
                   segStart, abortedAt, now, nTerminate, nJoin, diedPending, diedReplacement,
                   died, overran, segOver, outOfOrder>>


\* ---------------------------------------------------- the pool's workers
Queued == {j \in Handles : results[j].st = "queued"}

\* The pool's worker loop runs `while maxtasks is None or completed < maxtasks`.
MaxTasksReached(p) ==
    maxtasksperchild # None /\ proc[p].completed >= maxtasksperchild[1]

\* ... and counts the task it has served, whether it returned or raised (the
\* count is kept only where it is read: when maxtasksperchild is set).
Completed(p) ==
    IF maxtasksperchild = None THEN proc[p].completed ELSE proc[p].completed + 1

\* An idle worker takes the next task from the pool's task queue (FIFO).
Dispatch(p) ==
    /\ poolState = "RUN"
    /\ p \in Pids /\ Alive(p) /\ proc[p].task = 0
    /\ ~MaxTasksReached(p)
    /\ Queued # {}
    /\ LET j == Min(Queued) IN
       /\ results' = [results EXCEPT ![j].st = "running", ![j].t0 = now]
       /\ proc' = [proc EXCEPT ![p].task = j]
    /\ UNCHANGED <<cfg, logs, job_queue, progress, processes, poolState,
                   ctl, now, hist>>

\* markJobDone, the success callback of every job: self.job_queue.get()
markJobDone_queue == job_queue - 1

\* markJobDone: self.progress_bar.update(1)
markJobDone_progress == progress + 1

\* The job on worker p returns: the pool's result handler runs the success
\* callback (markJobDone) and then sets the handle ready.
JobReturns(p) ==
    /\ p \in Pids /\ Alive(p) /\ proc[p].task # 0
    /\ CanNest(proc[p].daemon, f)
    /\ LET j == proc[p].task IN
       results' = [results EXCEPT ![j].st = "ok", ![j].t0 = 0,
                                  ![j].value = add_one_with_pool(f, results[j].fargs),
                                  ![j].cb = "callback"]
    /\ proc' = [proc EXCEPT ![p].task = 0, ![p].completed = Completed(p)]
    /\ job_queue' = markJobDone_queue
    /\ progress' = markJobDone_progress
    /\ outOfOrder' = (outOfOrder \/ \E k \in 1..(proc[p].task - 1) : Pending(results[k]))
    /\ UNCHANGED <<cfg, logs, processes, poolState, ctl, now, nTerminate,
                   nJoin, diedPending, diedReplacement, died, overran, segOver, interruptedAt>>

\* The job on worker p raises an ordinary error: the worker catches it and
\* stays alive; the result handler runs the error callback, not markJobDone,
\* and sets the handle ready with the error.
JobRaises(p) ==
    /\ p \in Pids /\ Alive(p) /\ proc[p].task # 0
    /\ LET j == proc[p].task IN
       results' = [results EXCEPT ![j].st = "err", ![j].t0 = 0,
                                  ![j].cb = "error_callback"]
    /\ proc' = [proc EXCEPT ![p].task = 0, ![p].completed = Completed(p)]
    /\ outOfOrder' = (outOfOrder \/ \E k \in 1..(proc[p].task - 1) : Pending(results[k]))
    /\ UNCHANGED <<cfg, logs, job_queue, progress, processes, poolState,
                   ctl, now, nTerminate, nJoin, diedPending, diedReplacement, died, overran,
                   segOver, interruptedAt>>

\* Worker p ends with exit status code: its job called sys.exit(code) or
\* crashed, or the process was killed from outside (busy or idle).  The job
\* it was running never resolves.  Exit status 0 needs a job that exits.
WorkerDies(p, code) ==
    /\ poolState = "RUN"
    /\ p \in Pids /\ Alive(p)
    /\ code = 0 => proc[p].task # 0
    /\ proc' = [proc EXCEPT ![p].exitcode = <<code>>, ![p].task = 0]
    /\ results' = [j \in Handles |->
                     IF j = proc[p].task
                     THEN [results[j] EXCEPT !.st = "lost", !.t0 = 0]
                     ELSE results[j]]
    /\ died' = TRUE
    /\ diedPending' = (diedPending \/
                        (code # 0 /\ \E j \in Handles : Pending(results[j])))
    /\ diedReplacement' = (diedReplacement \/
                            (/\ p > NumProcesses
                             /\ code # 0
                             /\ \E j \in Handles : Pending(results[j])))
    /\ UNCHANGED <<cfg, logs, job_queue, progress, processes, poolState,
                   ctl, now, nTerminate, nJoin, overran, segOver, outOfOrder,
                   interruptedAt>>

\* Worker p has served maxtasksperchild tasks: its loop ends and the process
\* exits with status 0.
Retire(p) ==
    /\ p \in Pids /\ Alive(p) /\ proc[p].task = 0
    /\ MaxTasksReached(p)
    /\ proc' = [proc EXCEPT ![p].exitcode = <<0>>]
    /\ UNCHANGED <<cfg, logs, job_queue, progress, results, processes, poolState,
                   ctl, now, hist>>

\* NestablePool.Process: the pool's maintenance thread replaces a worker that
\* exited; the new process is appended to the tracked list.
Process ==
    /\ poolState = "RUN"
    /\ Cardinality({p \in Pids : Alive(p)}) < NumProcesses
    /\ Len(proc) < NumProcesses + MaxRespawns
    /\ proc' = Append(proc, NewProcess)
    /\ processes' = Append(processes, Len(proc) + 1)
    /\ UNCHANGED <<cfg, logs, job_queue, progress, results, poolState,
                   ctl, now, hist>>

\* One second passes while the controller is blocked in res.wait(timeout=1)
\* on a handle that is not ready; the clock stops at limit.
Advance(limit) ==
    /\ pc = "wait"
    /\ ~ready(results[i])
    /\ waited < PollInterval
    /\ now < limit
    /\ now' = now + 1
    /\ waited' = waited + 1
    /\ overran' = (overran \/ \E j \in Handles :
                     results[j].st = "running" /\ now + 1 - results[j].t0 > timeout)
    /\ segOver' = (segOver \/ now + 1 - segStart > timeout)
    /\ UNCHANGED <<cfg, logs, kwargs, error, kept, job_queue, progress, results, proc,
                   processes, poolState, pc, block, fargs, i, outputs,
                   start_time, cause, outcome, returned, segStart, abortedAt,
                   nTerminate, nJoin, diedPending, diedReplacement, died, outOfOrder,
                   interruptedAt>>

Tick == Advance(MaxTime)

\* The longest a call of checkPool can last: every handle is given up at
\* the first poll after more than timeout seconds.
Horizon == MaxJobs * (timeout + PollInterval)

\* Time advances for as long as checkPool can need it.
TickLive == Advance(Horizon)

Next ==
    \/ CallApplyAsync
    \/ applyAsync
    \/ CallCheckPool
    \/ ForNext
    \/ WhileNotReady
    \/ StoreProcesses
    \/ WaitReturn
    \/ Get
    \/ StopPoolTerminate
    \/ StopPoolJoin
    \/ ReturnOutputs
    \/ RaiseAbnormal
    \/ \E exc \in Interrupts : Interrupt(exc)
    \/ \E p \in 1..(NumProcesses + MaxRespawns) : Dispatch(p)
    \/ \E p \in 1..(NumProcesses + MaxRespawns) : JobReturns(p)
    \/ \E p \in 1..(NumProcesses + MaxRespawns) : JobRaises(p)
    \/ \E p \in 1..(NumProcesses + MaxRespawns), code \in {0, ExitFailure} : WorkerDies(p, code)
    \/ Process
    \/ Tick

Spec == Init /\ [][Next]_vars

\* ------------------------------------------------------ the log relay
\* Only the top-level process exists and no pool has been constructed.  The
\* application may have configured a handler on its root logger, and may
\* have made a queue of its own (queue 1) with a listener in the top-level
\* process.  The platform's start method is fork or spawn.
InitLog ==
    /\ max_jobs_queued = 0
    /\ maxtasksperchild = None
    /\ f = 0
    /\ Constructed
    /\ start_method \in {"fork", "spawn"}
    /\ handlers \in {<< <<>> >>, << <<Sink>> >>}
    /\ listener \in {<<>>, <<0>>}
    /\ queues = [q \in 1..Len(listener) |-> 0]
    /\ given = <<>>
    /\ passed = <<>>
    /\ relays = <<0>>
    /\ logged = FALSE
    /\ written = 0
    /\ forwarded = <<0>>

\* The depth of the deepest process: 0 is the top-level process, a worker of
\* a pool constructed at depth d is at depth d + 1.
Depth == Len(handlers) - 1

\* multiprocessing.current_process().name != "MainProcess"
NotMainProcess(d) == d # 0

\* `if not queue and multiprocessing.current_process().name != "MainProcess":`
StartsRelay(queue, d) == queue = None /\ NotMainProcess(d)

\* The queues a process at depth d can pass to JobPool(queue=...): the one
\* its own worker_init was given, or in the top-level process the
\* application's own queue.
OwnQueues(d) ==
    IF d = 0
    THEN {<<q>> : q \in 1..Len(listener)}
    ELSE {passed[d]} \ {None}

\* The root logger's handlers in a process started from a process whose
\* handlers are hs: fork copies the parent's logging configuration, spawn
\* starts from an unconfigured one.
Inherited(hs) == IF start_method = "fork" THEN hs ELSE <<>>

\* worker_init(warningFilter, queue) in a process that starts with handlers
\* hs: `if queue:` a QueueHandler(queue) is added to the root logger.
worker_init(hs, queue) ==
    IF queue # None THEN Append(hs, QueueHandler(queue[1])) ELSE hs

\* The process at depth Depth constructs JobPool(queue=queue_arg): lines
\* 116-119 make a queue and start its listener, or keep the argument; the
\* pool's worker (depth Depth + 1) runs worker_init with the queue.
JobPoolInit(queue_arg) ==
    /\ Depth < MaxDepth
    /\ queue_arg \in {None} \cup OwnQueues(Depth)
    /\ LET d == Depth
           q == Len(listener) + 1
           started == StartsRelay(queue_arg, d)
           queue == IF started THEN <<q>> ELSE queue_arg
       IN  /\ listener' = IF started THEN Append(listener, d) ELSE listener
           /\ queues' = IF started THEN Append(queues, 0) ELSE queues
           /\ relays' = Append(IF started THEN [relays EXCEPT ![d + 1] = @ + 1]
                                           ELSE relays, 0)
           /\ given' = Append(given, queue_arg)
           /\ passed' = Append(passed, queue)
           /\ handlers' = Append(handlers,
                                 worker_init(Inherited(handlers[d + 1]), queue))
           /\ forwarded' = Append(forwarded, 0)
    /\ UNCHANGED <<cfg, start_method, logged, written, job_queue, progress,
                   results, proc, processes, poolState, ctl, now, hist>>

\* How many of the handlers hs are handler h.
Count(hs, h) == Cardinality({k \in 1..Len(hs) : hs[k] = h})

\* A record handled by a logger whose handlers are hs: every handler emits
\* it, the sink by writing it, a QueueHandler by putting it on its queue.
callHandlers(hs) ==
    /\ written' = written + Count(hs, Sink)
    /\ queues' = [q \in 1..Len(queues) |->
                     queues[q] + Count(hs, QueueHandler(q))]

\* A job running in the worker at depth d logs a record.
Emit(d) ==
    /\ ~logged
    /\ d \in 1..Depth
    /\ logged' = TRUE
    /\ callHandlers(handlers[d + 1])
    /\ UNCHANGED <<cfg, start_method, handlers, listener, given, passed,
                   relays, forwarded, job_queue, progress, results, proc,
                   processes, poolState, ctl, now, hist>>

\* QueueListener(queue, logger): the listener of queue q takes a record off
\* the queue and hands it to the logger of its own process.
Relay(q) ==
    /\ q \in 1..Len(queues)
    /\ queues[q] > 0
    /\ LET d == listener[q] IN
       /\ written' = written + Count(handlers[d + 1], Sink)
       /\ queues' = [r \in 1..Len(queues) |->
                        queues[r] + Count(handlers[d + 1], QueueHandler(r))
                                  - (IF r = q THEN 1 ELSE 0)]
       /\ forwarded' = [forwarded EXCEPT ![d + 1] = @ + 1]
    /\ UNCHANGED <<cfg, start_method, handlers, listener, given, passed,
                   relays, logged, job_queue, progress, results, proc,
                   processes, poolState, ctl, now, hist>>

NextLog ==
    \/ \E queue_arg \in {None} \cup {<<q>> : q \in 1..(MaxDepth + 1)} :
          JobPoolInit(queue_arg)
    \/ \E d \in 1..MaxDepth : Emit(d)
    \/ \E q \in 1..(MaxDepth + 1) : Relay(q)

SpecLog == InitLog /\ [][NextLog]_vars

SpecBounded == InitBounded /\ [][Next]_vars

\* The caller may pass a success callback of its own.
NextCallback == Next \/ CallApplyAsyncCallback

SpecCallback == Init /\ [][NextCallback]_vars

\* With maxtasksperchild set, workers retire.
NextTasks ==
    \/ Next
    \/ \E p \in 1..(NumProcesses + MaxRespawns) : Retire(p)

SpecTasks == InitTasks /\ [][NextTasks]_vars

SpecNested == InitNested /\ [][NextTasks]_vars

\* The statements of checkPool, which the controller goes on executing.
Controller ==
    \/ ForNext
    \/ WhileNotReady
    \/ StoreProcesses
    \/ WaitReturn
    \/ Get
    \/ StopPoolTerminate
    \/ StopPoolJoin
    \/ ReturnOutputs
    \/ RaiseAbnormal

NextLive ==
    \/ CallApplyAsync
    \/ applyAsync
    \/ CallCheckPool
    \/ Controller
    \/ \E exc \in Interrupts : Interrupt(exc)
    \/ \E p \in 1..(NumProcesses + MaxRespawns) : Dispatch(p)
    \/ \E p \in 1..(NumProcesses + MaxRespawns) : JobReturns(p)
    \/ \E p \in 1..(NumProcesses + MaxRespawns) : JobRaises(p)
    \/ \E p \in 1..(NumProcesses + MaxRespawns), code \in {0, ExitFailure} : WorkerDies(p, code)
    \/ Process
    \/ TickLive

\* The controller's thread keeps running and time advances; nothing is
\* assumed of the workers, the pool's respawning or the caller.
SpecLive == Init /\ [][NextLive]_vars /\ WF_vars(Controller) /\ WF_vars(TickLive)

\* ------------------------------------------------------------- claims
Done == pc = "done"

\* No interrupt was delivered to the controller during checkPool.
NoInterrupt == cause \notin Interrupts /\ outcome \notin Interrupts

\* Some job raised an ordinary error.
JobError == \E k \in Handles : results[k].st = "err"

\* The list checkPool owes the caller: the k-th job's result at index k.
Expected == [k \in Handles |-> add_one(results[k].fargs)]

\* C1: when every submitted job completes normally (no worker dies, no wait
\* segment lasts longer than the timeout, no interrupt, no job raises),
\* checkPool returns; and whenever it returns, the list has one element per
\* submitted job and its k-th element is the result of the k-th job.
C1_OrderedResults ==
    /\ (Done /\ ~died /\ ~segOver /\ NoInterrupt /\ ~JobError) => outcome = "returned"
    /\ outcome = "returned" => returned = Expected

\* C1 witness: checkPool returned at least two results, one of which was
\* ready before an earlier submitted job's.
C1_Witness ==
    /\ outcome = "returned"
    /\ Len(returned) >= 2
    /\ outOfOrder

\* C2 (as claimed): once a worker has exited nonzero while a submitted job
\* was pending, checkPool (not interrupted) ends with
\* AbnormalPoolTerminationError and returns nothing.
C2_DeathAborts ==
    (Done /\ diedPending /\ NoInterrupt) =>
        (outcome = "AbnormalPoolTerminationError" /\ returned = <<>>)

C4_TwoOutcomes ==
    Done =>
        \/ outcome = "returned" /\ Len(returned) = Len(results)
        \/ outcome = "AbnormalPoolTerminationError"

\* C5 (as claimed): when checkPool has returned or raised, pool.terminate()
\* and pool.join() have each been called exactly once and no worker is alive.
C5_TeardownOnce ==
    Done =>
        /\ nTerminate = 1
        /\ nJoin = 1
        /\ \A p \in Pids : ~Alive(p)

\* C6: while checkPool goes on with a handle, at most timeout seconds have
\* passed since it began waiting on it, plus one poll interval while it is
\* blocked in the wait; once more than timeout seconds have passed with the
\* handle not ready, the next statement raises TimeoutError, so the abort
\* comes later than timeout and at most one poll interval later; and the
\* TimeoutError leaves checkPool as AbnormalPoolTerminationError (no
\* interrupt being delivered).
C6_TimeoutAborts ==
    /\ pc \in {"while", "get"} => now - segStart <= timeout
    /\ pc = "wait" => now - segStart <= timeout + PollInterval
    /\ (segOver /\ NoInterrupt) => (pc = "wait" \/ cause = "TimeoutError")
    /\ cause = "TimeoutError" =>
          /\ abortedAt - segStart > timeout
          /\ abortedAt - segStart <= timeout + PollInterval
          /\ outcome # "returned"
    /\ (Done /\ cause = "TimeoutError" /\ NoInterrupt) =>
          (outcome = "AbnormalPoolTerminationError" /\ returned = <<>>)

\* C6 witness: a wait segment lasted longer than the timeout and checkPool
\* ended with AbnormalPoolTerminationError caused by TimeoutError.
C6_Witness ==
    /\ Done
    /\ segOver
    /\ cause = "TimeoutError"
    /\ outcome = "AbnormalPoolTerminationError"

\* C7: the timeout clock of checkPool is the time since it began waiting on
\* the current handle; and if no worker dies and no wait segment lasts
\* longer than the timeout (and no interrupt is delivered and no job
\* raises), checkPool returns the full ordered results, however long the
\* batch took in total.
C7_PerHandleClock ==
    /\ pc \in {"while", "wait", "get"} => start_time = segStart
    /\ (Done /\ ~died /\ ~segOver /\ NoInterrupt /\ ~JobError) =>
          (outcome = "returned" /\ returned = Expected)

\* C7 witness: checkPool returned the results of a batch that took longer
\* than the timeout in total, with no segment over the timeout.
C7_Witness ==
    /\ outcome = "returned"
    /\ ~segOver
    /\ now > timeout
    /\ Len(returned) >= 2

\* C8 (as claimed): when some job ran for longer than the timeout (and
\* nothing else went wrong), checkPool ends with
\* AbnormalPoolTerminationError caused by TimeoutError.
C8_JobTimeout ==
    (Done /\ overran /\ ~died /\ NoInterrupt /\ ~JobError) =>
        (cause = "TimeoutError" /\ outcome = "AbnormalPoolTerminationError")

\* C9: an interrupt delivered while checkPool waits for or collects a handle
\* is caught by the except clause for KeyboardInterrupt and SystemExit; from
\* then on checkPool collects no further handle and never returns a list;
\* and when the except clause has run (no further interrupt reaching it),
\* every worker has been terminated and joined, once, no job is running any
\* more, and checkPool has raised AbnormalPoolTerminationError.
C9_InterruptAborts ==
    /\ interruptedAt = "loop" =>
          /\ cause \in Interrupts
          /\ block = "except_interrupt"
          /\ pc \in {"terminate", "join", "raise", "done"}
          /\ outcome # "returned" /\ returned = <<>>
    /\ (Done /\ interruptedAt = "loop" /\ outcome \notin Interrupts) =>
          /\ outcome = "AbnormalPoolTerminationError"
          /\ nTerminate = 1 /\ nJoin = 1
          /\ \A p \in Pids : ~Alive(p)
          /\ \A k \in Handles : results[k].st # "running"

\* C9 witness: checkPool had collected a result and was awaiting a job
\* still running when the interrupt came; it raised
\* AbnormalPoolTerminationError and the job never resolved.
C9_Witness ==
    /\ Done
    /\ interruptedAt = "loop"
    /\ outcome = "AbnormalPoolTerminationError"
    /\ Len(outputs) >= 1
    /\ \E k \in Handles : results[k].st = "lost"

\* The jobs submitted and not yet acknowledged by markJobDone.
Unacknowledged == {k \in Handles : results[k].cb # "callback"}

\* C10: the queue holds one item per submitted, unacknowledged job; with a
\* bound B = max_jobs_queued > 0 there are never more than B of them; an
\* applyAsync call is blocked exactly when B > 0 and B jobs are
\* unacknowledged, so it proceeds as soon as there are fewer, and never
\* blocks when B = 0.
C10_Backpressure ==
    /\ job_queue = Cardinality(Unacknowledged)
    /\ max_jobs_queued > 0 => Cardinality(Unacknowledged) <= max_jobs_queued
    /\ pc = "put" =>
          ((ENABLED applyAsync) <=>
             (max_jobs_queued = 0 \/ Cardinality(Unacknowledged) < max_jobs_queued))

\* C10 witness: with a bound B > 0, more than B jobs have been submitted, the
\* last one after an earlier one was acknowledged, and B are unacknowledged,
\* so that the next applyAsync call is blocked.
C10_Witness ==
    /\ max_jobs_queued > 0
    /\ Len(results) > max_jobs_queued
    /\ Cardinality(Unacknowledged) = max_jobs_queued

\* A worker that served maxtasksperchild tasks and exited with status 0.
Retired(p) == proc[p].exitcode = <<0>> /\ MaxTasksReached(p)

\* The pids the controller tracks.
Tracked == {processes[k] : k \in 1..Len(processes)}

\* C11: with maxtasksperchild set, checkPool raises
\* AbnormalWorkerTerminationError only when some worker exited with a nonzero
\* status, never for a worker that retired with status 0; and when every job
\* completes normally (no worker dies, no wait segment lasts longer than the
\* timeout, no interrupt, no job raises), checkPool returns the results of
\* all jobs in submission order, whatever retirements and respawns happen.
C11_RetirementHarmless ==
    /\ cause = "AbnormalWorkerTerminationError" =>
          \E p \in Pids : proc[p].exitcode = <<ExitFailure>>
    /\ (Done /\ ~died /\ ~segOver /\ NoInterrupt /\ ~JobError) =>
          (outcome = "returned" /\ returned = Expected)
    /\ outcome = "returned" => returned = Expected

\* C11 witness: checkPool returned two results in order; a worker had
\* retired and been dropped from the tracked list by a poll, and its
\* replacement had served a job.
C11_Witness ==
    /\ maxtasksperchild # None
    /\ outcome = "returned"
    /\ Len(returned) >= 2
    /\ returned = Expected
    /\ \E p \in 1..NumProcesses : Retired(p) /\ p \notin Tracked
    /\ \E q \in Pids : q > NumProcesses /\ proc[q].completed >= 1

\* C12 (as claimed): with maxtasksperchild set, once a replacement worker
\* (spawned after a retirement: no initial worker exited nonzero) has exited
\* nonzero while a submitted job was pending, checkPool (not interrupted)
\* ends with AbnormalPoolTerminationError.
C12_DeathAfterRespawn ==
    (/\ Done
     /\ maxtasksperchild # None
     /\ diedReplacement
     /\ \A p \in 1..NumProcesses : proc[p].exitcode # <<ExitFailure>>
     /\ NoInterrupt) =>
        outcome = "AbnormalPoolTerminationError"

\* C13 (as claimed): a success callback can be passed to applyAsync: the call
\* returns having submitted the job, it does not raise.
C13_UserCallback == ~(pc = "raised" /\ outcome = "TypeError")

\* C14 (as claimed): the AbnormalPoolTerminationError checkPool raises carries
\* the original cause: its cause is the exception the except clause caught.
C14_CarriesCause ==
    (Done /\ outcome = "AbnormalPoolTerminationError") =>
        (error.cause = <<cause>> /\ ~error.suppress_context)

\* The list checkPool owes the caller when the jobs are f.
NestedExpected == [k \in Handles |-> add_one_with_pool(f, results[k].fargs)]

\* C15: every worker a pool creates, initial or replacement, is non-daemonic
\* although the pool assigns True to its daemon flag, so it can run a job
\* that constructs a pool, at every depth; add_one_with_pool(0) is 16 as
\* test_pool_is_nestable expects; a nested job that completes resolves its
\* handle with the sum of the ordered nested results; and when every job
\* completes normally checkPool returns those values in submission order.
C15_PoolsNest ==
    /\ \A p \in Pids :
          /\ ~proc[p].daemon
          /\ ~_get_daemon(proc[p].daemon)
          /\ CanNest(proc[p].daemon, f)
    /\ add_one_with_pool(1, 0) = 16
    /\ \A k \in Handles :
          results[k].st = "ok" => results[k].value = NestedExpected[k]
    /\ (Done /\ ~died /\ ~segOver /\ NoInterrupt /\ ~JobError) =>
          (outcome = "returned" /\ returned = NestedExpected)
    /\ outcome = "returned" => returned = NestedExpected

\* C15 witness: the outer checkPool returned the values of two jobs that
\* each drove nested pools, one of them served by a replacement worker.
C15_Witness ==
    /\ f >= 1
    /\ outcome = "returned"
    /\ Len(returned) >= 2
    /\ returned = NestedExpected
    /\ returned[1] > add_one(0)
    /\ \E q \in Pids : q > NumProcesses /\ proc[q].completed >= 1

\* The handles that have resolved, with a value or with an error.
Resolved == {k \in Handles : ready(results[k])}

\* C16 (as claimed): the completed-count is the number of handles that have
\* resolved; it never exceeds the number of submitted jobs; and when
\* checkPool has returned the results it equals the number of submitted jobs
\* and the queue of submission slots is empty.
C16_ProgressCounts ==
    /\ progress = Cardinality(Resolved)
    /\ progress <= Len(results)
    /\ outcome = "returned" => (progress = Len(results) /\ job_queue = 0)

\* C17 (as claimed): with a bound B > 0, an applyAsync call can proceed once
\* fewer than B submitted jobs are unresolved, whether the others resolved
\* with a value or with an error; and the call is never blocked in a state
\* from which no slot can ever be released, every submitted job having
\* resolved or been lost with its worker.
C17_BlockedCallReturns ==
    /\ (pc = "put" /\ Cardinality(Handles \ Resolved) < max_jobs_queued) =>
          ENABLED applyAsync
    /\ ~(/\ pc = "put"
          /\ ~ENABLED applyAsync
          /\ \A k \in Handles : results[k].st \in {"ok", "err", "lost"})

\* C18 (as claimed): whenever the controller begins a poll, every worker the
\* pool created whose exit status is not 0 (alive, or exited nonzero) is in
\* the tracked list.
C18_NoWorkerLost ==
    pc = "while" => \A p \in Pids : proc[p].exitcode # <<0>> => p \in Tracked

\* C19: the clock's bound is never what keeps the controller waiting, and
\* once checkPool has been called it eventually ends, whatever the workers
\* do: it returns the results or raises AbnormalPoolTerminationError (an
\* interrupt delivered inside an except clause leaves it as it is, C4).
C19_Terminates ==
    /\ [](pc = "wait" /\ ~ready(results[i]) /\ waited < PollInterval => now < Horizon)
    /\ pc \in InCheckPool ~>
          (Done /\ (NoInterrupt =>
                      outcome \in {"returned", "AbnormalPoolTerminationError"}))

\* C19 witness: a worker exited with status 0 while running a job and was
\* dropped from the tracked list, the job's handle never became ready, and
\* checkPool ended with AbnormalPoolTerminationError caused by TimeoutError.
C19_Witness ==
    /\ Done
    /\ cause = "TimeoutError"
    /\ outcome = "AbnormalPoolTerminationError"
    /\ \E k \in Handles : results[k].st = "lost"
    /\ \E p \in Pids : proc[p].exitcode = <<0>> /\ p \notin Tracked
    /\ \A p \in Pids : proc[p].exitcode # <<ExitFailure>>


\* The pools constructed so far: pool k was constructed by the process at
\* depth k - 1.
Pools == 1..Len(given)

\* A relay is started exactly when no queue is supplied outside the
\* top-level process, and a supplied queue is the one the workers receive.
RelayStartedIff ==
    \A k \in Pools :
        /\ relays[k] = 1 <=> (given[k] = None /\ k - 1 # 0)
        /\ relays[k] \in {0, 1}
        /\ given[k] # None => passed[k] = given[k]

\* C20: constructing a JobPool starts a log relay if and only if no external
\* queue is supplied and the constructing process is not the top-level
\* process; a supplied queue is reused and no relay is started; so a record
\* logged by a worker at any depth is forwarded at most once per process
\* level and reaches the log at most once.
C20_RelayWithoutDuplication ==
    /\ RelayStartedIff
    /\ \A d \in 0..Depth : forwarded[d + 1] <= 1
    /\ written <= 1

====
